---- MODULE Spec2Model ----
(***************************************************************************)
(* ionping: a concurrent ICMP liveness sweeper (src/ionping.py).           *)
(*                                                                         *)
(* Time is counted in whole seconds, and the wall clock read by            *)
(* time.time() is taken to advance by the socket timeout while recvfrom    *)
(* blocks until socket.timeout.                                            *)
(*                                                                         *)
(* Two specifications share the variables below.                           *)
(*   SpecCodec  the packet codec as pure functions: ICMP_ECHO.__init__     *)
(*              and validate_echo_response applied to bounded inputs.      *)
(*   Spec       one run of main(): argument validation, the output handle, *)
(*              the writer thread, the ThreadPoolExecutor workers running  *)
(*              subnet_queue / send_ping, and the shutdown sequence.       *)
(***************************************************************************)
EXTENDS Integers, Sequences, FiniteSets, Bags, TLC

VARIABLES
    codec,          \* SpecCodec: inputs and results of the two pure functions
    args,           \* argparse namespace: threads, timeout
    timeout,        \* module global `timeout`
    subnet_list,    \* main's list of (subnet, host_range) tuples
    mainpc,         \* position of the main thread
    exit_status,    \* process exit status once main has ended
    handle,         \* the output file object: open flag, buffer, bytes on disk
    writer_queue,   \* module global Queue: items and unfinished_tasks
    writer,         \* the file_writer thread: position and local `output`
    executor,       \* ThreadPoolExecutor: max_workers and its work queue
    future,         \* per target: state of the Future of its subnet_queue call
    worker,         \* per pool thread: position inside subnet_queue/send_ping
    probes,         \* per target: the send_ping calls made so far, in order
    lingering,      \* sockets opened by send_ping calls that ended, never closed
    lastCall,       \* observation of the send_ping call that ended last
    not_live,       \* per target: times '[-] Subnet ... is not live' was printed
    sigint          \* <<>>, or <<the targets queued as live when SIGINT came>>

vars == <<codec, args, timeout, subnet_list, mainpc, exit_status, handle,
          writer_queue, writer, executor, future, worker, probes, lingering,
          lastCall, not_live, sigint>>

runVars == <<args, timeout, subnet_list, mainpc, exit_status, handle,
             writer_queue, writer, executor, future, worker, probes,
             lingering, lastCall, not_live, sigint>>

-----------------------------------------------------------------------------
(* Bounds of the model *)

MaxTargets == 2     \* /24 subnets in subnet_list
MaxSuffix == 2      \* host suffixes per target
MaxData == 2        \* bytes of Echo Request data

(* Program constants *)

_ECHO_REQ == 8
_default_timeout == 2
_max_threads == 4

Min(a, b) == IF a <= b THEN a ELSE b

-----------------------------------------------------------------------------
(* PacketCodec *)

\* struct.pack("!BBHHH", ...): two bytes and three big-endian 16-bit words
PackHeader(type, code, checksum, id, seq) ==
    <<type, code, checksum \div 256, checksum % 256, id \div 256, id % 256,
      seq \div 256, seq % 256>>

\* struct.unpack raises struct.error unless the buffer has exactly 8 bytes
UnpackRaises(b) == Len(b) # 8

\* struct.unpack("!BBHHH", icmp_response) of an 8-byte buffer
UnpackHeader(b) ==
    [type |-> b[1], code |-> b[2], checksum |-> b[3] * 256 + b[4],
     id |-> b[5] * 256 + b[6], seq |-> b[7] * 256 + b[8]]

\* one round of the loop body, lines 67-69, without the end-around carry
FoldDropCarry(checksum, word) == (checksum + word) % 65536

\* one round of the loop body, lines 67-69
Fold(checksum, word) ==
    LET c == checksum + word IN (c % 65536) + (c \div 65536)

\* lines 65-69: for i in range(0, len(payload), 2) over an even-length buffer
RECURSIVE ChecksumLoop(_, _, _)
ChecksumLoop(payload, i, checksum) ==
    IF i > Len(payload) THEN checksum
    ELSE ChecksumLoop(payload, i + 2,
                      Fold(checksum, payload[i] * 256 + payload[i + 1]))

\* line 67 reads payload[i + 1] past the end of an odd-length buffer: IndexError
ChecksumRaises(payload) == Len(payload) % 2 = 1

\* ICMP_ECHO.__init__ when it returns (lines 59-73)
ICMP_ECHO(icmp_id, sequence, data) ==
    LET icmp_header == PackHeader(_ECHO_REQ, 0, 0, icmp_id, sequence)
        sum == ChecksumLoop(icmp_header \o data, 1, 0)
        checksum == 65535 - (sum % 65536)               \* ~checksum & 0xffff
        header == PackHeader(_ECHO_REQ, 0, checksum, icmp_id, sequence)
    IN  [icmp_id |-> icmp_id, sequence |-> sequence, data |-> data,
         checksum |-> checksum, header |-> header, payload |-> header \o data]

\* a validator that also accepts a foreign identifier
validate_any_id(icmp_response, icmp_id, address) ==
    LET h == UnpackHeader(icmp_response)
    IN  h.type = 0 /\ h.code = 0

\* validate_echo_response
validate_echo_response(icmp_response, icmp_id, address) ==
    LET h == UnpackHeader(icmp_response)
    IN  h.type = 0 /\ h.code = 0 /\ h.id = icmp_id

-----------------------------------------------------------------------------
(* SpecCodec: the codec applied to bounded inputs *)

Words == {0, 1, 63488, 65535}
DataBytes == {0, 255}
DataSet == UNION {[1..n -> DataBytes] : n \in 0..MaxData}
ReplyTypes == {0, 3, 8}
ReplyCodes == {0, 1}

Responses ==
    {PackHeader(t, c, cs, i, s) :
        t \in ReplyTypes, c \in ReplyCodes, cs \in {0, 65535},
        i \in Words, s \in {0, 1}}

\* request and verdict hold nothing (<<>>) or the one result (<<r>>)
NoCodec == [icmp_id |-> 0, sequence |-> 0, data |-> <<>>,
            icmp_response |-> <<>>, request |-> <<>>, verdict |-> <<>>]

CodecInit ==
    /\ codec \in [icmp_id : Words, sequence : {0, 2048, 65535}, data : DataSet,
                  icmp_response : Responses, request : {<<>>},
                  verdict : {<<>>}]

\* echo_request = ICMP_ECHO(icmp_id, sequence, data)
BuildEchoRequest ==
    /\ codec.request = <<>>
    /\ codec' = [codec EXCEPT
                   !.request =
                      IF ChecksumRaises(PackHeader(_ECHO_REQ, 0, 0, codec.icmp_id,
                                                   codec.sequence) \o codec.data)
                        THEN <<"IndexError">>
                        ELSE <<ICMP_ECHO(codec.icmp_id, codec.sequence,
                                         codec.data)>>]
    /\ UNCHANGED runVars

\* validate_echo_response(icmp_header, echo_request.icmp_id, addr)
ValidateReply ==
    /\ codec.verdict = <<>>
    /\ codec' = [codec EXCEPT
                   !.verdict = <<validate_echo_response(codec.icmp_response,
                                                        codec.icmp_id, "addr")>>]
    /\ UNCHANGED runVars

-----------------------------------------------------------------------------
(* The run: inputs *)

TimeoutArgs == {0, 2, 3}                    \* values given to -t
ThreadArgs == 0..(_max_threads + 1)         \* values given to -T

\* str(ipaddress.IPv4Network(ip)) of the t-th /24: "10.0.t.0/24" as octets, prefix
Subnet(t) == <<10, 0, t, 0, 24>>

\* [f".{i}" for i in ...]: the host suffixes of a mapping line, in file order
HostRange(l) == [i \in 1..l |-> 255 - i]

Targets == 1..Len(subnet_list)

\* lines 103-104: subnet.split("/")[0]
StripPrefix(subnet) == IF Len(subnet) = 5 THEN SubSeq(subnet, 1, 4) ELSE subnet

\* line 106: '.'.join(subnet.split(".")[0:-1]) + suffix
Address(subnet, suffix) == SubSeq(StripPrefix(subnet), 1, 3) \o <<suffix>>

\* line 109: f'{subnet}/24\n'
Line(subnet) == StripPrefix(subnet) \o <<24>>

\* the datagrams the network may hand to recvfrom: ICMP part packet[20:28]
Datagrams ==
    {PackHeader(t, c, 0, i, 0) : t \in {0, 3}, c \in {0, 1}, i \in {0, 1}}
        \cup {<<>>}

\* before line 224 there is no pool
NoExecutor == [max_workers |-> 0, work_queue |-> <<>>]

Idle == [pc |-> "idle", task |-> 0, i |-> 0, sockTimeout |-> 0, waited |-> 0,
         sends |-> 0, recvs |-> 0, first |-> "none"]

RunInit ==
    /\ args \in [threads : ThreadArgs, timeout : TimeoutArgs]
    /\ timeout = _default_timeout
    /\ \E n \in 0..MaxTargets, l \in 1..MaxSuffix :
          subnet_list = [t \in 1..n |->
                            [subnet |-> Subnet(t), host_range |-> HostRange(l)]]
    /\ mainpc = "validate"
    /\ exit_status = -1                    \* the process is running
    /\ handle = [open |-> FALSE, buffer |-> <<>>, disk |-> <<>>]
    /\ writer_queue = [items |-> <<>>, unfinished_tasks |-> 0]
    /\ writer = [pc |-> "unstarted", output |-> <<>>]
    /\ executor = NoExecutor
    /\ future = [t \in Targets |-> "UNSUBMITTED"]
    /\ worker = [w \in 1.._max_threads |-> Idle]
    /\ probes = [t \in Targets |-> <<>>]
    /\ lingering = 0
    /\ lastCall = <<>>
    /\ not_live = [t \in Targets |-> 0]
    /\ sigint = <<>>

-----------------------------------------------------------------------------
(* main *)

\* lines 166-179: the argument checks that end in exit(1)
\* a validation without the upper limit on threads
ArgsValidNoMax(a) == a.timeout >= 1 /\ a.threads >= 1

ArgsValid(a) == a.timeout >= 1 /\ a.threads >= 1 /\ a.threads <= _max_threads

\* lines 166-188: Argument Validation, Set arguments
MainValidate ==
    /\ mainpc = "validate"
    /\ IF ArgsValid(args)
         THEN /\ timeout' = args.timeout
              /\ mainpc' = "open"
              /\ UNCHANGED exit_status
         ELSE /\ mainpc' = "exited"
              /\ exit_status' = 1
              /\ UNCHANGED timeout
    /\ UNCHANGED <<codec, args, subnet_list, handle, writer_queue, writer,
                   executor, future, worker, probes, lingering, lastCall,
                   not_live, sigint>>

\* lines 219-222: open the output file, start the daemon writer thread
MainOpen ==
    /\ mainpc = "open"
    /\ handle' = [handle EXCEPT !.open = TRUE]
    /\ writer' = [writer EXCEPT !.pc = "get"]
    /\ mainpc' = "pool"
    /\ UNCHANGED <<codec, args, timeout, subnet_list, exit_status, writer_queue,
                   executor, future, worker, probes, lingering, lastCall,
                   not_live, sigint>>

\* a pool as large as the thread argument
PoolSizeThreads(threads, n) == threads

\* line 223
PoolSize(threads, n) == Min(threads, n)

\* lines 223-225: ThreadPoolExecutor(workers) raises ValueError for workers <= 0,
\* which leaves both with-blocks; otherwise map() submits every target at once
MainPool ==
    /\ mainpc = "pool"
    /\ LET workers == PoolSize(args.threads, Len(subnet_list))
       IN  IF workers <= 0
             THEN /\ handle' = [open |-> FALSE, buffer |-> <<>>,
                                disk |-> handle.disk \o handle.buffer]
                  /\ mainpc' = "raised"
                  /\ exit_status' = 1
                  /\ UNCHANGED <<executor, future>>
             ELSE /\ executor' = [max_workers |-> workers,
                                  work_queue |-> [t \in Targets |-> t]]
                  /\ future' = [t \in Targets |-> "PENDING"]
                  /\ mainpc' = "shutdown"
                  /\ UNCHANGED <<handle, exit_status>>
    /\ UNCHANGED <<codec, args, timeout, subnet_list, writer_queue, writer,
                   worker, probes, lingering, lastCall,
                   not_live, sigint>>

\* executor.__exit__ -> shutdown(wait=True): every pool thread has ended, which
\* they do once the work queue is empty and their current task is over
PoolDrained ==
    /\ executor.work_queue = <<>>
    /\ \A w \in 1.._max_threads : worker[w].pc = "idle"

\* line 224, leaving the executor's with-block
MainShutdown ==
    /\ mainpc = "shutdown"
    /\ PoolDrained
    /\ mainpc' = "join"
    /\ UNCHANGED <<codec, args, timeout, subnet_list, exit_status, handle,
                   writer_queue, writer, executor, future, worker, probes,
                   lingering, lastCall,
                   not_live, sigint>>

\* a join that returns at once
JoinReturnsNoWait(q) == TRUE

\* Queue.join(): blocks until unfinished_tasks is zero
JoinReturns(q) == q.unfinished_tasks = 0

\* line 227: writer_queue.join()
MainJoin ==
    /\ mainpc = "join"
    /\ JoinReturns(writer_queue)
    /\ mainpc' = "close"
    /\ UNCHANGED <<codec, args, timeout, subnet_list, exit_status, handle,
                   writer_queue, writer, executor, future, worker, probes,
                   lingering, lastCall,
                   not_live, sigint>>

\* lines 219, 228: leaving the file's with-block closes the handle (close
\* flushes), then '[i] finished execution' is printed and main returns
MainClose ==
    /\ mainpc = "close"
    /\ handle' = [open |-> FALSE, buffer |-> <<>>,
                  disk |-> handle.disk \o handle.buffer]
    /\ mainpc' = "finished"
    /\ exit_status' = 0
    /\ UNCHANGED <<codec, args, timeout, subnet_list, writer_queue, writer,
                   executor, future, worker, probes, lingering, lastCall,
                   not_live, sigint>>

-----------------------------------------------------------------------------
(* file_writer *)

\* a get that takes the newest item
QueueGetNewest(q) ==
    <<q.items[Len(q.items)],
      [q EXCEPT !.items = SubSeq(@, 1, Len(@) - 1)]>>

\* line 35: queue.Queue is first in, first out; get() takes the oldest item
QueueGet(q) == <<Head(q.items), [q EXCEPT !.items = Tail(@)]>>

\* line 148: output = writer_queue.get(), blocking while the queue is empty
WriterGet ==
    /\ writer.pc = "get"
    /\ writer_queue.items # <<>>
    /\ LET got == QueueGet(writer_queue)
       IN  /\ writer' = [pc |-> "write", output |-> got[1]]
           /\ writer_queue' = got[2]
    /\ UNCHANGED <<codec, args, timeout, subnet_list, mainpc, exit_status,
                   handle, executor, future, worker, probes, lingering, lastCall,
                   not_live, sigint>>

\* line 149: file_handle.write(output); ValueError on a closed file ends the thread
WriterWrite ==
    /\ writer.pc = "write"
    /\ IF handle.open
         THEN /\ handle' = [handle EXCEPT !.buffer = Append(@, writer.output)]
              /\ writer' = [writer EXCEPT !.pc = "flush"]
         ELSE /\ writer' = [writer EXCEPT !.pc = "raised"]
              /\ UNCHANGED handle
    /\ UNCHANGED <<codec, args, timeout, subnet_list, mainpc, exit_status,
                   writer_queue, executor, future, worker, probes, lingering,
                   lastCall,
                   not_live, sigint>>

\* a flush that leaves the buffer as it is
FlushNothing(h) == h

\* flush(): what the handle buffers goes to the file
FlushHandle(h) == [h EXCEPT !.buffer = <<>>, !.disk = @ \o h.buffer]

\* line 150: file_handle.flush()
WriterFlush ==
    /\ writer.pc = "flush"
    /\ IF handle.open
         THEN /\ handle' = FlushHandle(handle)
              /\ writer' = [writer EXCEPT !.pc = "task_done"]
         ELSE /\ writer' = [writer EXCEPT !.pc = "raised"]
              /\ UNCHANGED handle
    /\ UNCHANGED <<codec, args, timeout, subnet_list, mainpc, exit_status,
                   writer_queue, executor, future, worker, probes, lingering,
                   lastCall,
                   not_live, sigint>>

\* line 151: writer_queue.task_done()
WriterTaskDone ==
    /\ writer.pc = "task_done"
    /\ writer_queue' = [writer_queue EXCEPT !.unfinished_tasks = @ - 1]
    /\ writer' = [pc |-> "get", output |-> <<>>]
    /\ UNCHANGED <<codec, args, timeout, subnet_list, mainpc, exit_status,
                   handle, executor, future, worker, probes, lingering, lastCall,
                   not_live, sigint>>

-----------------------------------------------------------------------------
(* Pool threads: subnet_queue and send_ping *)

TaskOf(w) == worker[w].task
SuffixList(w) == subnet_list[TaskOf(w)].host_range
SuffixOf(w) == SuffixList(w)[worker[w].i]

\* the observation left by a send_ping call that ended
CallRecord(w, raised, result, opened, sends, recvs, first, waited, from) ==
    [raised |-> raised, result |-> result, opened |-> opened, sends |-> sends,
     recvs |-> recvs, first |-> first,
     sockTimeout |-> IF opened THEN _default_timeout ELSE 0,
     bound |-> _default_timeout, waited |-> waited, from |-> from]

\* line 106: the address the pool thread w is probing
AddressOf(w) == Address(subnet_list[TaskOf(w)].subnet, SuffixOf(w))

\* line 128: icmp_socket is a raw IPPROTO_ICMP socket, not bound or connected, so
\* recvfrom yields any ICMP datagram that reaches this machine: one from the
\* probed address, or the answer of a host that another pool thread is probing
Sources(w) ==
    {AddressOf(w)} \cup
    {AddressOf(v) : v \in {u \in 1.._max_threads : u # w /\ worker[u].pc = "recv"}}

\* what recvfrom may return as (packet[20:28], addr): any datagram from the
\* probed address, or the Echo Reply (type 0, code 0, the identifier 0 and
\* sequence 0 of every request) of another address in Sources
Arrivals(w) ==
    {<<d, AddressOf(w)>> : d \in Datagrams} \cup
    {<<PackHeader(0, 0, 0, 0, 0), a>> : a \in Sources(w) \ {AddressOf(w)}}

\* Python's == between values of different types is False
PyEq(a, b) == a.type = b.type /\ a.value = b.value

\* line 112: suffix == suffix_list[:-1], a str against a list
IsLastSuffix(suffix, suffix_list) ==
    PyEq([type |-> "str", value |-> suffix],
         [type |-> "list",
          value |-> SubSeq(suffix_list, 1, Len(suffix_list) - 1)])

\* a scan that goes on to the next suffix after a live host
LoopStepNoBreak(result, i, n) ==
    IF i < n THEN "next" ELSE "end"

\* lines 105-110: break on a true result, else the for loop moves on or ends
LoopStep(result, i, n) ==
    IF result THEN "break"
    ELSE IF i < n THEN "next" ELSE "end"

\* Queue.put(item) on an unbounded queue: never blocks
QueuePut(q, item) ==
    [items |-> Append(q.items, item),
     unfinished_tasks |-> q.unfinished_tasks + 1]

\* a scan that reports a subnet whatever the probe said
ReportsAlways(result) == TRUE

\* line 107: if send_ping(address):
Reports(result) == result

\* the worker appends to the file itself instead of queueing
EmitDirect(q, h, line) ==
    <<q, [h EXCEPT !.disk = Append(@, line)]>>

\* line 109: the only thing a worker does with a live subnet is queue its line
Emit(q, h, line) == <<QueuePut(q, line), h>>

\* the ThreadPoolExecutor worker takes the next work item and enters subnet_queue
\* (lines 98-105): the scan starts at the first suffix of the list
WorkerTake(w) ==
    /\ w <= executor.max_workers
    /\ worker[w].pc = "idle"
    /\ executor.work_queue # <<>>
    /\ LET t == Head(executor.work_queue)
       IN  /\ executor' = [executor EXCEPT !.work_queue = Tail(@)]
           /\ future' = [future EXCEPT ![t] = "RUNNING"]
           /\ worker' = [worker EXCEPT ![w] = [Idle EXCEPT !.pc = "send",
                                                          !.task = t, !.i = 1]]
    /\ UNCHANGED <<codec, args, timeout, subnet_list, mainpc, exit_status,
                   handle, writer_queue, writer, probes, lingering, lastCall,
                   not_live, sigint>>

\* send_ping returned `result` to subnet_queue (lines 107-113). No statement of
\* send_ping closes icmp_socket: the call ends with the socket open, and what
\* becomes of it afterwards is the garbage collector's business, not the program's
PingReturns(w, result) ==
    LET t == TaskOf(w)
        step == LoopStep(result, worker[w].i, Len(SuffixList(w)))
        out == IF Reports(result)
                 THEN Emit(writer_queue, handle, Line(subnet_list[t].subnet))
                 ELSE <<writer_queue, handle>>
    IN  /\ probes' = [probes EXCEPT
                        ![t] = Append(@, [suffix |-> SuffixOf(w),
                                          result |-> result, raised |-> FALSE])]
        /\ writer_queue' = out[1]
        /\ handle' = out[2]
        /\ lingering' = lingering + 1
        /\ not_live' = [not_live EXCEPT
                          ![t] = IF ~result /\ IsLastSuffix(SuffixOf(w), SuffixList(w))
                                   THEN @ + 1 ELSE @]
        /\ IF step = "next"
             THEN /\ worker' = [worker EXCEPT ![w] = [Idle EXCEPT
                                   !.pc = "send", !.task = t, !.i = worker[w].i + 1]]
                  /\ UNCHANGED future
             ELSE /\ worker' = [worker EXCEPT ![w] = Idle]
                  /\ future' = [future EXCEPT ![t] = "FINISHED"]

\* an exception other than socket.timeout leaves send_ping, subnet_queue (which
\* catches KeyboardInterrupt only) and the lambda; the work item stores it in the
\* Future, whose result nobody asks for (line 225 drops map()'s iterator)
PingRaises(w, opened) ==
    LET t == TaskOf(w)
    IN  /\ probes' = [probes EXCEPT
                        ![t] = Append(@, [suffix |-> SuffixOf(w),
                                          result |-> FALSE, raised |-> TRUE])]
        /\ lingering' = lingering + (IF opened THEN 1 ELSE 0)
        /\ worker' = [worker EXCEPT ![w] = Idle]
        /\ future' = [future EXCEPT ![t] = "EXCEPTION"]
        /\ UNCHANGED <<writer_queue, handle, not_live>>

\* lines 120-125: socket(), settimeout(_default_timeout), ICMP_ECHO(), sendto()
PingSend(w) ==
    /\ worker[w].pc = "send"
    /\ \E outcome \in {"sent", "socket raises", "sendto raises"} :
         IF outcome = "sent"
           THEN /\ worker' = [worker EXCEPT ![w] = [@ EXCEPT
                                 !.pc = "recv", !.sockTimeout = _default_timeout,
                                 !.waited = 0, !.sends = @ + 1]]
                /\ UNCHANGED <<probes, lingering, future, writer_queue, handle,
                               lastCall, not_live>>
           ELSE /\ PingRaises(w, outcome = "sendto raises")
                /\ lastCall' = <<CallRecord(w, TRUE, FALSE,
                                            outcome = "sendto raises", 0, 0,
                                            "none", 0, "none")>>
    /\ UNCHANGED <<codec, args, timeout, subnet_list, mainpc, exit_status,
                   writer, executor, sigint>>

\* a mismatching datagram is skipped and the loop receives again
OnDatagramRetry(valid) == IF valid THEN "return" ELSE "loop"

\* lines 130-136: both branches of the validation return
OnDatagram(valid) == "return"

\* lines 126-142: one pass of the receive loop
PingRecv(w) ==
    /\ worker[w].pc = "recv"
    /\ LET me == worker[w]
           echo_request == ICMP_ECHO(0, 0, <<>>)
       IN \E ev \in {"datagram", "socket.timeout", "OSError"} :
            IF ev = "OSError"
              THEN /\ PingRaises(w, TRUE)
                   /\ lastCall' = <<CallRecord(w, TRUE, FALSE, TRUE, me.sends,
                                        me.recvs + 1, me.first, me.waited,
                                        "none")>>
            ELSE IF ev = "socket.timeout"
              THEN LET elapsed_time == me.waited + me.sockTimeout
                   IN  IF elapsed_time >= _default_timeout
                         THEN /\ PingReturns(w, FALSE)
                              /\ lastCall' = <<CallRecord(w, FALSE, FALSE, TRUE,
                                                   me.sends, me.recvs + 1,
                                                   me.first, elapsed_time,
                                                   "none")>>
                         ELSE /\ worker' = [worker EXCEPT ![w] = [@ EXCEPT
                                               !.waited = elapsed_time,
                                               !.recvs = @ + 1]]
                              /\ UNCHANGED <<probes, lingering, future,
                                             writer_queue, handle, lastCall,
                                             not_live>>
            ELSE \E arrival \in Arrivals(w) :
                 LET icmp_header == arrival[1]
                     addr == arrival[2]
                 IN
                   IF UnpackRaises(icmp_header)
                     THEN /\ PingRaises(w, TRUE)
                          /\ lastCall' = <<CallRecord(w, TRUE, FALSE, TRUE,
                                               me.sends, me.recvs + 1, me.first,
                                               me.waited, "none")>>
                     ELSE LET valid == validate_echo_response(
                                           icmp_header, echo_request.icmp_id, addr)
                              from == IF addr = AddressOf(w) THEN "probed host"
                                      ELSE "other host"
                              first == IF me.first # "none" THEN me.first
                                       ELSE IF valid THEN "match" ELSE "mismatch"
                          IN  IF OnDatagram(valid) = "return"
                                THEN /\ PingReturns(w, valid)
                                     /\ lastCall' = <<CallRecord(w, FALSE, valid,
                                                          TRUE, me.sends,
                                                          me.recvs + 1, first,
                                                          me.waited, from)>>
                                ELSE /\ worker' = [worker EXCEPT ![w] = [@ EXCEPT
                                                      !.recvs = @ + 1,
                                                      !.first = first]]
                                     /\ UNCHANGED <<probes, lingering, future,
                                                    writer_queue, handle, lastCall,
                                                    not_live>>
    /\ UNCHANGED <<codec, args, timeout, subnet_list, mainpc, exit_status,
                   writer, executor, sigint>>

-----------------------------------------------------------------------------
(* SIGINT *)

\* every line put on writer_queue so far, oldest first: on disk, in the handle's
\* buffer, held by the writer between get and write, or still queued
Pipeline ==
    handle.disk \o handle.buffer
        \o (IF writer.pc = "write" THEN <<writer.output>> ELSE <<>>)
        \o writer_queue.items

\* lines 231-233: Python delivers SIGINT to the main thread only, as a
\* KeyboardInterrupt raised where main() stands: before the with-blocks, or inside
\* them (waiting in the executor's shutdown or in writer_queue.join()), and then
\* leaving the file's with-block closes the handle.  The pool threads and the
\* writer thread are not interrupted.
Interrupt ==
    /\ sigint = <<>>
    /\ mainpc \in {"validate", "open", "pool", "shutdown", "join", "close"}
    /\ sigint' = <<Pipeline>>
    /\ handle' = IF handle.open
                   THEN [open |-> FALSE, buffer |-> <<>>,
                         disk |-> handle.disk \o handle.buffer]
                   ELSE handle
    /\ mainpc' = "sys.exit"
    /\ UNCHANGED <<codec, args, timeout, subnet_list, exit_status, writer_queue,
                   writer, executor, future, worker, probes, lingering, lastCall,
                   not_live>>

\* lines 234-235: sys.exit(1).  Before the interpreter ends it joins the
\* executor's threads, which first run every work item still in the work queue;
\* the daemon writer thread ends with the process.
MainExit ==
    /\ mainpc = "sys.exit"
    /\ PoolDrained
    /\ mainpc' = "exited"
    /\ exit_status' = 1
    /\ writer' = [pc |-> "killed", output |-> <<>>]
    /\ UNCHANGED <<codec, args, timeout, subnet_list, handle, writer_queue,
                   executor, future, worker, probes, lingering, lastCall,
                   not_live, sigint>>

-----------------------------------------------------------------------------
(* Specifications *)

Init == codec = NoCodec /\ RunInit

Next ==
    \/ MainValidate
    \/ MainOpen
    \/ MainPool
    \/ MainShutdown
    \/ MainJoin
    \/ MainClose
    \/ WriterGet
    \/ WriterWrite
    \/ WriterFlush
    \/ WriterTaskDone
    \/ \E w \in 1.._max_threads : WorkerTake(w)
    \/ \E w \in 1.._max_threads : PingSend(w)
    \/ \E w \in 1.._max_threads : PingRecv(w)

Spec == Init /\ [][Next]_vars

\* the run with a SIGINT arriving at any moment
NextInt == Next \/ Interrupt \/ MainExit

SpecInt == Init /\ [][NextInt]_vars

InitCodec ==
    /\ CodecInit
    /\ args = [threads |-> 1, timeout |-> 1]
    /\ timeout = _default_timeout
    /\ subnet_list = <<>>
    /\ mainpc = "validate"
    /\ exit_status = -1                    \* the process is running
    /\ handle = [open |-> FALSE, buffer |-> <<>>, disk |-> <<>>]
    /\ writer_queue = [items |-> <<>>, unfinished_tasks |-> 0]
    /\ writer = [pc |-> "unstarted", output |-> <<>>]
    /\ executor = NoExecutor
    /\ future = <<>>
    /\ worker = [w \in 1.._max_threads |-> Idle]
    /\ probes = <<>>
    /\ lingering = 0
    /\ lastCall = <<>>
    /\ not_live = <<>>
    /\ sigint = <<>>

NextCodec == BuildEchoRequest \/ ValidateReply

SpecCodec == InitCodec /\ [][NextCodec]_vars

-----------------------------------------------------------------------------
(* Properties *)

RECURSIVE Count(_, _)
Count(seq, x) ==
    IF seq = <<>> THEN 0
    ELSE (IF Head(seq) = x THEN 1 ELSE 0) + Count(Tail(seq), x)

\* targets whose scan had a probe return true
LiveTargets ==
    {t \in Targets : \E j \in 1..Len(probes[t]) : probes[t][j].result}

RaisedTargets == {t \in Targets : future[t] = "EXCEPTION"}

TargetLine(t) == Line(subnet_list[t].subnet)

\* C1: when main completes normally, the output file holds the line of every
\* target that had a probe return true exactly once, and no other line.
C1_OutputIsLiveTargets ==
    mainpc = "finished" =>
        /\ \A t \in Targets :
              Count(handle.disk, TargetLine(t)) = (IF t \in LiveTargets THEN 1 ELSE 0)
        /\ \A k \in 1..Len(handle.disk) :
              \E t \in LiveTargets : handle.disk[k] = TargetLine(t)

C1_Witness ==
    /\ mainpc = "finished"
    /\ executor.max_workers = 2
    /\ \E t, u \in Targets :
          /\ t \in LiveTargets
          /\ u \notin LiveTargets
          /\ Len(probes[u]) = Len(subnet_list[u].host_range)
    /\ Len(handle.disk) = 1

\* C2: in a run that completes normally, main passes writer_queue.join() only
\* after every worker task has ended, every queued line is written and flushed
\* while the handle is still open, and the writer never meets a closed handle.
C2_DrainedBeforeClose ==
    /\ mainpc \in {"join", "close", "finished"} =>
          /\ \A t \in Targets : future[t] \in {"FINISHED", "EXCEPTION"}
          /\ \A w \in 1.._max_threads : worker[w].pc = "idle"
    /\ mainpc \in {"close", "finished"} =>
          /\ writer_queue.items = <<>>
          /\ writer_queue.unfinished_tasks = 0
          /\ writer.pc = "get"
          /\ handle.buffer = <<>>
          /\ \A t \in LiveTargets : Count(handle.disk, TargetLine(t)) = 1
    /\ mainpc = "join" => handle.open
    /\ writer.pc \in {"write", "flush", "task_done"} => handle.open
    /\ writer.pc # "raised"

C2_Witness ==
    /\ mainpc = "finished"
    /\ ~handle.open
    /\ Len(handle.disk) = 2

\* C3: a scan probes the suffixes in list order, one call each, and makes no
\* call after one that returned true; a scan that returned made as many calls
\* as the position of its first live suffix, or one per suffix if none is live.
C3_ShortCircuitInOrder ==
    \A t \in Targets :
        LET p == probes[t]
            suffix_list == subnet_list[t].host_range
        IN  /\ Len(p) <= Len(suffix_list)
            /\ \A j \in 1..Len(p) : p[j].suffix = suffix_list[j]
            /\ \A j \in 1..(Len(p) - 1) : ~p[j].result /\ ~p[j].raised
            /\ future[t] = "FINISHED" =>
                  IF t \in LiveTargets
                    THEN p[Len(p)].result
                    ELSE Len(p) = Len(suffix_list)

C3_Witness ==
    \E t \in Targets :
        /\ future[t] = "FINISHED"
        /\ Len(subnet_list[t].host_range) = 2
        /\ Len(probes[t]) = 1
        /\ probes[t][1].result

\* C4: if a probe fails with an error other than a receive timeout, the run
\* does not reach 'finished execution' and the process does not exit zero.
C4_SocketErrorIsFatal ==
    RaisedTargets # {} => mainpc # "finished" /\ exit_status # 0

\* C5: no socket opened by a send_ping call that has ended is still open.
C5_SocketsReleased == lingering = 0

\* C6: a step of a pool thread never changes the output handle; the handle's
\* content grows only by the writer appending the one line it took from the
\* queue, so the file is always a sequence of whole lines queued by live scans.
C6_OnlyWriterWrites ==
    /\ [](\A k \in 1..Len(handle.disk \o handle.buffer) :
             \E t \in LiveTargets : (handle.disk \o handle.buffer)[k] = TargetLine(t))
    /\ [][/\ worker' # worker => handle' = handle
          /\ handle'.buffer # handle.buffer =>
                \/ /\ writer.pc = "write"
                   /\ handle'.buffer = Append(handle.buffer, writer.output)
                   /\ handle'.disk = handle.disk
                \/ /\ handle'.buffer = <<>>
                   /\ handle'.disk = handle.disk \o handle.buffer
          /\ handle'.disk # handle.disk =>
                /\ handle'.disk = handle.disk \o handle.buffer
                /\ writer.pc = "flush" \/ mainpc = "close"]_vars

C6_Witness ==
    /\ Len(handle.disk) = 1
    /\ Len(handle.buffer) = 1
    /\ handle.disk[1] # handle.buffer[1]
    /\ writer.pc = "flush"

\* C7: a send_ping call that returned sent exactly one Echo Request and its
\* result is that of the first datagram received: true iff it matched, with no
\* receive after a datagram; with no datagram it returned false after a timeout.
C7_FirstDatagramDecides ==
    lastCall # <<>> =>
        LET c == lastCall[1]
        IN  /\ c.sends <= 1
            /\ ~c.raised =>
                  /\ c.sends = 1
                  /\ c.result <=> c.first = "match"
                  /\ c.first # "none" => c.recvs = 1
                  /\ c.first = "none" => ~c.result /\ c.waited >= c.bound

C7_Witness ==
    /\ lastCall # <<>>
    /\ ~lastCall[1].raised
    /\ lastCall[1].first = "mismatch"
    /\ ~lastCall[1].result
    /\ lastCall[1].recvs = 1

\* C8: the socket receive timeout and the elapsed-time bound of a send_ping call
\* are both the timeout the caller configured.
C8_ConfiguredTimeoutUsed ==
    (lastCall # <<>> /\ lastCall[1].opened) =>
        /\ lastCall[1].sockTimeout = timeout
        /\ lastCall[1].bound = timeout

RECURSIVE WordSum(_)
WordSum(bytes) ==
    IF Len(bytes) < 2 THEN 0
    ELSE bytes[1] * 256 + bytes[2] + WordSum(SubSeq(bytes, 3, Len(bytes)))

\* end-around carry applied until the value fits 16 bits
RECURSIVE EndAround(_)
EndAround(n) == IF n < 65536 THEN n ELSE EndAround((n % 65536) + (n \div 65536))

\* C10: for an even-length payload, the one's-complement sum over the built
\* packet is 0xFFFF and the stored checksum fits 16 bits.
C10_ChecksumSelfConsistent ==
    (codec.request # <<>> /\ Len(codec.data) % 2 = 0) =>
        LET q == codec.request[1]
        IN  /\ EndAround(WordSum(q.payload)) = 65535
            /\ q.checksum \in 0..65535
            /\ q.payload[3] * 256 + q.payload[4] = q.checksum

C10_Witness ==
    /\ codec.request # <<>>
    /\ Len(codec.data) = 2
    /\ codec.icmp_id = 65535
    /\ codec.sequence = 65535
    /\ codec.data[1] = 255

\* C11: when the run is interrupted, every line that had been put on
\* writer_queue by then is in the output file once the process has exited, and
\* the exit status is not zero.
C11_InterruptKeepsEnqueued ==
    (sigint # <<>> /\ mainpc = "exited") =>
        /\ \A k \in 1..Len(sigint[1]) : Count(handle.disk, sigint[1][k]) = 1
        /\ exit_status # 0

\* C12: with a thread count above 4 or below 1, or a timeout below 1, the
\* process only exits with status 1: no file is opened or written, no thread is
\* started, no target is submitted or scanned, and no socket is created.
C12_InvalidArgsRejected ==
    (args.threads > 4 \/ args.threads < 1 \/ args.timeout < 1) =>
        /\ mainpc \in {"validate", "exited"}
        /\ mainpc = "exited" => exit_status = 1
        /\ ~handle.open /\ handle.buffer = <<>> /\ handle.disk = <<>>
        /\ writer.pc = "unstarted"
        /\ writer_queue.items = <<>>
        /\ executor = NoExecutor
        /\ \A t \in Targets : future[t] = "UNSUBMITTED" /\ probes[t] = <<>>
        /\ \A w \in 1.._max_threads : worker[w] = Idle
        /\ lingering = 0
        /\ lastCall = <<>>

C12_Witness ==
    /\ args.threads = 5
    /\ args.timeout = 2
    /\ Len(subnet_list) = 2
    /\ mainpc = "exited"
    /\ exit_status = 1

\* the scans in progress
Scanning == {t \in Targets : future[t] = "RUNNING"}

C13_Size ==
    IF args.threads <= Len(subnet_list) THEN args.threads ELSE Len(subnet_list)

C13_State ==
    /\ executor # NoExecutor => executor.max_workers = C13_Size
    /\ Cardinality(Scanning) <= C13_Size
    /\ Cardinality(Scanning) <= 4
    /\ \A t \in Targets :
          Cardinality({w \in 1.._max_threads : worker[w].task = t}) =
              (IF t \in Scanning THEN 1 ELSE 0)

C13_Step ==
    \A w \in 1.._max_threads :
        worker'[w].task # worker[w].task =>
            IF worker[w].task = 0
              THEN /\ future[worker'[w].task] = "PENDING"
                   /\ future'[worker'[w].task] = "RUNNING"
              ELSE /\ worker'[w].task = 0
                   /\ future'[worker[w].task] \in {"FINISHED", "EXCEPTION"}

\* C13: the pool is created with min(thread count, number of targets) workers;
\* the scans in progress never outnumber that value nor 4, each is run by one
\* pool thread, and a pool thread leaves its scan only when the scan has ended
\* and takes a pending target only when it has none.
C13_PoolBounded == [](C13_State) /\ [][C13_Step]_vars

C13_Witness ==
    /\ args.threads = 1
    /\ Len(subnet_list) = 2
    /\ executor.max_workers = 1
    /\ future[1] = "FINISHED"
    /\ future[2] = "RUNNING"
    /\ worker[1].task = 2

\* C14: a send_ping call returns true only on a datagram that came from the
\* address it probed, also while other pool threads are probing.
C14_ReplyFromProbedAddress ==
    (lastCall # <<>> /\ lastCall[1].result) => lastCall[1].from = "probed host"

\* where a target stands: not started, being scanned, ended live or not live, or
\* ended by an exception that left subnet_queue
Status(t) ==
    CASE future[t] \in {"UNSUBMITTED", "PENDING"} -> "Pending"
      [] future[t] = "RUNNING" -> "Scanning"
      [] future[t] = "FINISHED" ->
             (IF t \in LiveTargets THEN "Live" ELSE "NotLive")
      [] OTHER -> "Failed"

\* C15: a target only ever moves Pending -> Scanning -> Live or
\* Pending -> Scanning -> NotLive.
C15_TargetStateMachine ==
    [][\A t \in Targets :
          Status(t)' # Status(t) =>
              <<Status(t), Status(t)'>> \in {<<"Pending", "Scanning">>,
                                              <<"Scanning", "Live">>,
                                              <<"Scanning", "NotLive">>}]_vars

\* C16: a scan that ended with every probe false printed the not-live message
\* once and queued nothing; a scan with a true probe printed none.
C16_NotLiveReportedOnce ==
    \A t \in Targets :
        future[t] = "FINISHED" =>
            IF t \in LiveTargets
              THEN not_live[t] = 0
              ELSE /\ not_live[t] = 1
                   /\ Count(Pipeline, TargetLine(t)) = 0

\* C17: at most one written line is unflushed, and only while the writer stands
\* between its write and its flush; the items marked done (those put on the
\* queue less the unfinished ones) are never more than the lines in the file.
C17_FlushAfterEveryWrite ==
    /\ Len(handle.buffer) <= 1
    /\ handle.buffer # <<>> =>
          writer.pc = "flush" /\ handle.buffer = <<writer.output>>
    /\ writer.pc = "task_done" =>
          /\ handle.disk # <<>>
          /\ handle.disk[Len(handle.disk)] = writer.output
    /\ Cardinality(LiveTargets) - writer_queue.unfinished_tasks
          <= Len(handle.disk)

C17_Witness ==
    /\ writer.pc = "flush"
    /\ Len(handle.buffer) = 1
    /\ Len(handle.disk) = 1
    /\ writer_queue.unfinished_tasks = 1

\* C18: the lines on disk, buffered, held by the writer and queued, read in that
\* order, only ever grow by a line put at the queue's end: the file's order is
\* the order of the puts.
C18_FileOrderIsPutOrder ==
    [][\/ Pipeline' = Pipeline
       \/ \E t \in Targets : Pipeline' = Append(Pipeline, TargetLine(t))]_vars

C18_Witness ==
    /\ mainpc = "finished"
    /\ Len(subnet_list) = 2
    /\ handle.disk = <<TargetLine(2), TargetLine(1)>>

\* C19: once the interrupt has come, a target that is pending stays pending.
C19_NoDispatchAfterInterrupt ==
    [][sigint # <<>> =>
          \A t \in Targets : future[t] = "PENDING" => future'[t] = "PENDING"]_vars

\* C20: a process that got through argument validation and in which no probe
\* raised does not end otherwise than by main returning, with status zero.
C20_AcceptedRunEndsNormally ==
    (/\ args.threads \in 1..4
     /\ args.timeout >= 1
     /\ RaisedTargets = {}
     /\ exit_status # -1) =>
        /\ mainpc = "finished"
        /\ exit_status = 0
        /\ \A t \in Targets : future[t] = "FINISHED"
        /\ writer_queue.unfinished_tasks = 0

=============================================================================
